---- MODULE Spec2Model ----
(***************************************************************************)
(* Conflict/overlap constraint model and schedule verifier of the          *)
(* timetable pipeline:                                                     *)
(*   scripts/stage3/generate_overlap_matrix.py  (OverlapMatrixGenerator)   *)
(*   scripts/stage3/constraint_builder.py       (ConstraintBuilder)        *)
(*   scripts/stage3/validate_stage3.py          (Stage3Validator)          *)
(*   scripts/stage6/analyze_schedule.py         (ScheduleAnalyzer)         *)
(* Strings are atoms; where the code looks inside a string (substring      *)
(* test, comparison for sorting) the string is given by its tokens.        *)
(***************************************************************************)
EXTENDS Integers, Sequences, FiniteSets, TLC

\* raised: the exception a stage ended with, None when it returned
VARIABLES pc, regular_groups, elective_groups, hierarchy, matrix,
          sessions, overlap_constraints, rooms_map, student_groups_map,
          max_consecutive, report,
          assignments, subjects_data, room_preferences, raised,
          files, errors, warnings, results

vars == <<pc, regular_groups, elective_groups, hierarchy, matrix,
          sessions, overlap_constraints, rooms_map, student_groups_map,
          max_consecutive, report,
          assignments, subjects_data, room_preferences, raised,
          files, errors, warnings, results>>

matrixVars == <<regular_groups, elective_groups, hierarchy, matrix>>

verifierVars == <<sessions, overlap_constraints, rooms_map,
                  student_groups_map, max_consecutive, report>>

builderVars == <<assignments, subjects_data, room_preferences>>

validatorVars == <<files, errors, warnings, results>>

(***************************************************************************)
(* Bounds                                                                  *)
(***************************************************************************)
\* number of hierarchy declarations (parent / parents / child) in an input
MaxLinks == 2

\* Python None (and the other falsy "no value" results)
None == "None"

(***************************************************************************)
(* Group identifiers                                                       *)
(***************************************************************************)
GroupIds == {"MCA_SEM3_A", "MCA_SEM3_B", "ELEC_AD_A1", "ELEC_AD_B1", "ELEC_SS_G1"}

\* the text of an identifier, split at "_"
Tokens(id) ==
  CASE id = "MCA_SEM3_A" -> <<"MCA", "SEM3", "A">>
    [] id = "MCA_SEM3_B" -> <<"MCA", "SEM3", "B">>
    [] id = "MCA_SEM1_A" -> <<"MCA", "SEM1", "A">>
    [] id = "MCA_SEM1_B" -> <<"MCA", "SEM1", "B">>
    [] id = "ELEC_AD_A1" -> <<"ELEC", "AD", "A1">>
    [] id = "ELEC_AD_B1" -> <<"ELEC", "AD", "B1">>
    [] id = "ELEC_SS_G1" -> <<"ELEC", "SS", "G1">>
    [] id = "24MCA32_PR" -> <<"24MCA32", "PR">>
    [] id = "24MCA99_PR" -> <<"24MCA99", "PR">>
    [] OTHER -> <<id>>

\* position of a token in the ordering of Python string comparison
TokenRank(t) ==
  CASE t = "A" -> 1 [] t = "A1" -> 2 [] t = "AD" -> 3 [] t = "B" -> 4
    [] t = "B1" -> 5 [] t = "ELEC" -> 6 [] t = "G1" -> 7 [] t = "MCA" -> 8
    [] t = "SEM1" -> 9 [] t = "SEM3" -> 10 [] t = "SS" -> 11
    [] OTHER -> 12

RECURSIVE SeqLess(_, _)
SeqLess(s, t) ==
  IF s = <<>> THEN t # <<>>
  ELSE IF t = <<>> THEN FALSE
  ELSE IF TokenRank(Head(s)) # TokenRank(Head(t))
       THEN TokenRank(Head(s)) < TokenRank(Head(t))
       ELSE SeqLess(Tail(s), Tail(t))

\* str.__lt__ on identifiers
StrLess(a, b) == SeqLess(Tokens(a), Tokens(b))

\* variant: the list is left in the order it was built
sorted_as_built(list) == list

\* sorted(list)
Sorted(list) == SortSeq(list, StrLess)

\* `needle in text` for strings
Contains(text, needle) ==
  \E i \in 1..(Len(text) - Len(needle) + 1) :
     SubSeq(text, i, i + Len(needle) - 1) = needle

Range(s) == {s[i] : i \in DOMAIN s}

(***************************************************************************)
(* Hierarchy input: groupHierarchy of studentGroups.json                   *)
(***************************************************************************)
\* a declaration inside one entry of groupHierarchy: the optional keys
\* "parent", "parents" and "children"
ChildLinks == {[kind |-> "child", of |-> p, val |-> <<c>>] :
                 p \in GroupIds, c \in GroupIds}
ParentLinks == {[kind |-> "parent", of |-> g, val |-> <<p>>] :
                 g \in GroupIds, p \in GroupIds \cup {None}}
ParentsLinks == {[kind |-> "parents", of |-> g, val |-> <<p>>] :
                   g \in GroupIds, p \in GroupIds}
                \cup {[kind |-> "parents", of |-> g, val |-> <<p, q>>] :
                   g \in GroupIds, p \in GroupIds, q \in GroupIds}

WellFormedLink(l) ==
  /\ \A i \in DOMAIN l.val : l.val[i] # l.of
  /\ (Len(l.val) = 2 => StrLess(l.val[1], l.val[2]))

Links == {l \in ChildLinks \cup ParentLinks \cup ParentsLinks : WellFormedLink(l)}

\* a JSON object has one value per key
OneValuePerKey(L) ==
  \A l1 \in L, l2 \in L :
     (l1.of = l2.of /\ l1.kind = l2.kind /\ l1.kind # "child") => l1 = l2

RECURSIVE LinkSets(_)
LinkSets(k) ==
  IF k = 0 THEN {{}}
  ELSE LET P == LinkSets(k - 1)
       IN  P \cup {T \cup {l} : T \in P, l \in Links}

EntryOf(L, g) ==
  LET mine == {l \in L : l.of = g}
      par  == {l \in mine : l.kind = "parent"}
      pars == {l \in mine : l.kind = "parents"}
  IN  [hasParent  |-> par # {},
       parent     |-> IF par = {} THEN None ELSE (CHOOSE l \in par : TRUE).val[1],
       hasParents |-> pars # {},
       parents    |-> IF pars = {} THEN <<>> ELSE (CHOOSE l \in pars : TRUE).val,
       children   |-> {l.val[1] : l \in {m \in mine : m.kind = "child"}}]

HierarchyOf(L) ==
  [g \in {l.of : l \in L} |-> EntryOf(L, g)]

Hierarchies == {HierarchyOf(L) : L \in {M \in LinkSets(MaxLinks) : OneValuePerKey(M)}}

(***************************************************************************)
(* OverlapMatrixGenerator                                                  *)
(***************************************************************************)
\* the studentGroupId of every record of a group list, in list order
_get_all_group_ids(regular, elective) == regular \o elective

_get_children(h, group_id) ==
  IF group_id \in DOMAIN h THEN h[group_id].children ELSE {}

_get_parent(h, group_id) ==
  IF group_id \in DOMAIN h /\ h[group_id].hasParent /\ h[group_id].parent # None
  THEN h[group_id].parent
  ELSE None

_get_parents(h, group_id) ==
  IF group_id \in DOMAIN h
  THEN IF h[group_id].hasParent THEN <<h[group_id].parent>>
       ELSE IF h[group_id].hasParents THEN h[group_id].parents
       ELSE <<>>
  ELSE <<>>

_get_elective_category(group_id) ==
  IF Contains(Tokens(group_id), <<"ELEC", "AD">>) THEN "AD"
  ELSE IF Contains(Tokens(group_id), <<"ELEC", "SS">>) THEN "SS"
  ELSE None

\* variant: a child is looked up in the first group's children only
shares_parent_to_child(h, group1, group2) ==
  LET cat1 == _get_elective_category(group1)
      cat2 == _get_elective_category(group2)
      parent_of_1 == IF group1 \in DOMAIN h /\ h[group1].hasParent
                     THEN h[group1].parent ELSE None
      parent_of_2 == IF group2 \in DOMAIN h /\ h[group2].hasParent
                     THEN h[group2].parent ELSE None
  IN  IF group1 = group2 THEN TRUE
      ELSE IF cat1 # None /\ cat2 # None /\ cat1 # cat2 THEN FALSE
      ELSE IF group2 \in _get_children(h, group1) THEN TRUE
      ELSE IF parent_of_1 # None /\ parent_of_2 # None /\ parent_of_1 = parent_of_2
           THEN TRUE
      ELSE FALSE

\* variant: the hierarchy rules are consulted before the category test
shares_children_first(h, group1, group2) ==
  LET cat1 == _get_elective_category(group1)
      cat2 == _get_elective_category(group2)
      parent_of_1 == IF group1 \in DOMAIN h /\ h[group1].hasParent
                     THEN h[group1].parent ELSE None
      parent_of_2 == IF group2 \in DOMAIN h /\ h[group2].hasParent
                     THEN h[group2].parent ELSE None
  IN  IF group1 = group2 THEN TRUE
      ELSE IF group2 \in _get_children(h, group1) THEN TRUE
      ELSE IF group1 \in _get_children(h, group2) THEN TRUE
      ELSE IF parent_of_1 # None /\ parent_of_2 # None /\ parent_of_1 = parent_of_2
           THEN TRUE
      ELSE IF cat1 # None /\ cat2 # None /\ cat1 # cat2 THEN FALSE
      ELSE FALSE

_shares_students_with(h, group1, group2) ==
  LET cat1 == _get_elective_category(group1)
      cat2 == _get_elective_category(group2)
      parent_of_1 == _get_parent(h, group1)
      parent_of_2 == _get_parent(h, group2)
      parents_of_1 == _get_parents(h, group1)
      parents_of_2 == _get_parents(h, group2)
  IN  IF group1 = group2 THEN TRUE
      ELSE IF cat1 # None /\ cat2 # None /\ cat1 # cat2 THEN FALSE
      ELSE IF group2 \in _get_children(h, group1) THEN TRUE
      ELSE IF group1 \in _get_children(h, group2) THEN TRUE
      ELSE IF parent_of_1 # None /\ parent_of_2 # None /\ parent_of_1 = parent_of_2
           THEN TRUE
      ELSE IF /\ Len(parents_of_1) > 1
              /\ \/ group2 \in Range(parents_of_1)
                 \/ \E i \in DOMAIN parents_of_1 :
                      /\ group2 \in _get_children(h, parents_of_1[i])
                      /\ (cat2 = None \/ cat1 = cat2)
           THEN TRUE
      ELSE IF /\ Len(parents_of_2) > 1
              /\ \/ group1 \in Range(parents_of_2)
                 \/ \E i \in DOMAIN parents_of_2 :
                      /\ group1 \in _get_children(h, parents_of_2[i])
                      /\ (cat1 = None \/ cat1 = cat2)
           THEN TRUE
      ELSE FALSE

\* variant: differing elective categories alone do not make a pair parallel
can_run_parallel_by_tables(h, group1, group2) ==
  IF _shares_students_with(h, group1, group2) THEN FALSE
  ELSE <<group1, group2>> \in {<<"MCA_SEM3_A", "MCA_SEM3_B">>,
                               <<"MCA_SEM3_B", "MCA_SEM3_A">>,
                               <<"ELEC_AD_A1", "ELEC_AD_B1">>,
                               <<"ELEC_AD_B1", "ELEC_AD_A1">>,
                               <<"MCA_SEM1_A", "MCA_SEM1_B">>,
                               <<"MCA_SEM1_B", "MCA_SEM1_A">>}

_can_run_parallel(h, group1, group2) ==
  LET cat1 == _get_elective_category(group1)
      cat2 == _get_elective_category(group2)
  IN  IF _shares_students_with(h, group1, group2) THEN FALSE
      ELSE IF <<group1, group2>> \in {<<"MCA_SEM3_A", "MCA_SEM3_B">>,
                                      <<"MCA_SEM3_B", "MCA_SEM3_A">>} THEN TRUE
      ELSE IF <<group1, group2>> \in {<<"ELEC_AD_A1", "ELEC_AD_B1">>,
                                      <<"ELEC_AD_B1", "ELEC_AD_A1">>} THEN TRUE
      ELSE IF cat1 # None /\ cat2 # None /\ cat1 # cat2 THEN TRUE
      ELSE IF <<group1, group2>> \in {<<"MCA_SEM1_A", "MCA_SEM1_B">>,
                                      <<"MCA_SEM1_B", "MCA_SEM1_A">>} THEN TRUE
      ELSE FALSE

\* variant: the group itself is left out of its own list
ConflictsOfOthers(h, all_group_ids, group_id) ==
  LET Shares(other_id) == /\ other_id # group_id
                          /\ _shares_students_with(h, group_id, other_id)
  IN  Sorted(SelectSeq(all_group_ids, Shares))

\* the inner loop of generate_matrix for one group_id: the two lists
ConflictsOf(h, all_group_ids, group_id) ==
  LET Shares(other_id) == _shares_students_with(h, group_id, other_id)
  IN  Sorted(SelectSeq(all_group_ids, Shares))

\* variant: the parallel list is filled from the pair tables alone
ParallelOfTables(h, all_group_ids, group_id) ==
  LET Par(other_id) ==
        \/ <<group_id, other_id>> \in {<<"MCA_SEM3_A", "MCA_SEM3_B">>,
                                       <<"MCA_SEM3_B", "MCA_SEM3_A">>,
                                       <<"ELEC_AD_A1", "ELEC_AD_B1">>,
                                       <<"ELEC_AD_B1", "ELEC_AD_A1">>}
        \/ /\ _get_elective_category(group_id) # None
           /\ _get_elective_category(other_id) # None
           /\ _get_elective_category(group_id) # _get_elective_category(other_id)
  IN  Sorted(SelectSeq(all_group_ids, Par))

ParallelOf(h, all_group_ids, group_id) ==
  LET Par(other_id) == /\ ~ _shares_students_with(h, group_id, other_id)
                       /\ _can_run_parallel(h, group_id, other_id)
  IN  Sorted(SelectSeq(all_group_ids, Par))

\* variant: the groups that have a hierarchy entry get a key as well
generate_matrix_with_hierarchy_keys(h, all_group_ids) ==
  [cannotOverlapWith |->
     [g \in Range(all_group_ids) \cup DOMAIN h |-> ConflictsOf(h, all_group_ids, g)],
   canRunParallelWith |->
     [g \in Range(all_group_ids) \cup DOMAIN h |-> ParallelOf(h, all_group_ids, g)]]

generate_matrix(h, all_group_ids) ==
  [cannotOverlapWith |->
     [g \in Range(all_group_ids) |-> ConflictsOf(h, all_group_ids, g)],
   canRunParallelWith |->
     [g \in Range(all_group_ids) |-> ParallelOf(h, all_group_ids, g)]]

\* no matrix yet
NoMatrix == [cannotOverlapWith |-> <<>>, canRunParallelWith |-> <<>>]

(***************************************************************************)
(* ScheduleAnalyzer                                                        *)
(***************************************************************************)
\* a day or slotId that is missing, null or empty
Falsy(v) == v = None

\* f"{day}-{slot}"
time_key(day, slot) == <<day, slot>>

\* f"{entity}-{time_key}"
grid_key(entity, tk) == <<entity>> \o tk

\* the `if not day or not slot: continue` of the session loops
Placed(session) == ~ (Falsy(session.day) \/ Falsy(session.slotId))

\* the keys of a grid, in order of first insertion
RECURSIVE KeysInOrder(_, _)
KeysInOrder(keyed, seen) ==
  IF keyed = <<>> THEN <<>>
  ELSE IF Head(keyed) \in seen THEN KeysInOrder(Tail(keyed), seen)
  ELSE <<Head(keyed)>> \o KeysInOrder(Tail(keyed), seen \cup {Head(keyed)})

\* faculty_grid / room_grid of analyze(): key -> session ids, lines 81-90
EntityGrid(ss, field) ==
  LET placed == SelectSeq(ss, Placed)
      KeyOf(s) == grid_key(s[field], time_key(s.day, s.slotId))
      keys == KeysInOrder([i \in DOMAIN placed |-> KeyOf(placed[i])], {})
      Occupants(k) ==
        LET At(s) == KeyOf(s) = k
            here == SelectSeq(placed, At)
        IN  [i \in DOMAIN here |-> here[i].sessionId]
  IN  [keys |-> keys, at |-> [k \in Range(keys) |-> Occupants(k)]]

\* variant: one occupant is already reported
GridConflictsFromOne(grid, kind) ==
  LET Over(k) == Len(grid.at[k]) >= 1
      hit == SelectSeq(grid.keys, Over)
  IN  [i \in DOMAIN hit |->
         [kind |-> kind, id |-> Head(hit[i]), time_key |-> Tail(hit[i]),
          sessions |-> grid.at[hit[i]]]]

\* _analyze_faculty_conflicts / _analyze_room_conflicts
GridConflicts(grid, kind) ==
  LET Over(k) == Len(grid.at[k]) > 1
      hit == SelectSeq(grid.keys, Over)
  IN  [i \in DOMAIN hit |->
         [kind |-> kind, id |-> Head(hit[i]), time_key |-> Tail(hit[i]),
          sessions |-> grid.at[hit[i]]]]

_analyze_faculty_conflicts(faculty_grid) ==
  GridConflicts(faculty_grid, "faculty-double-booking")

_analyze_room_conflicts(room_grid) ==
  GridConflicts(room_grid, "room-double-booking")

\* the grid of _analyze_student_group_conflicts: time_key -> set of groups
StudentSlotGrid(ss) ==
  LET placed == SelectSeq(ss, Placed)
      keys == {time_key(placed[i].day, placed[i].slotId) : i \in DOMAIN placed}
  IN  [k \in keys |->
         UNION {Range(placed[i].studentGroupIds) :
                  i \in {j \in DOMAIN placed :
                           time_key(placed[j].day, placed[j].slotId) = k}}]

\* list(groups_in_slot): the members of the set in the iteration order of
\* this run (order lists every group once)
ListOf(groups_in_slot, order) ==
  LET In(g) == g \in groups_in_slot
  IN  SelectSeq(order, In)

\* overlap_map.get(g1, [])
OverlapGet(overlap_map, g1) ==
  IF g1 \in DOMAIN overlap_map THEN Range(overlap_map[g1]) ELSE {}

\* variant: the inner loop runs over the whole list, not the part after g1
PairsVisitedBoth(group_list) ==
  {<<group_list[p[1]], group_list[p[2]]>> :
     p \in {q \in (DOMAIN group_list) \X (DOMAIN group_list) : q[1] # q[2]}}

\* the pairs (g1, g2) visited by `for i, g1 ...: for g2 in group_list[i+1:]`
PairsVisited(group_list) ==
  {<<group_list[p[1]], group_list[p[2]]>> :
     p \in {q \in (DOMAIN group_list) \X (DOMAIN group_list) : q[1] < q[2]}}

\* variant: every pair of groups in a slot is a finding, whatever the matrix
student_conflicts_of_all_pairs(ss, constraints, order) ==
  LET grid == StudentSlotGrid(ss)
  IN  UNION {IF Cardinality(grid[tk]) > 1
             THEN {[kind |-> "student-group-overlap",
                    g1 |-> p[1], g2 |-> p[2], time_key |-> tk] :
                     p \in PairsVisited(ListOf(grid[tk], order))}
             ELSE {} : tk \in DOMAIN grid}

\* sorted(list(set(conflicts))): the distinct findings
_analyze_student_group_conflicts(ss, constraints, order) ==
  LET overlap_map == constraints.cannotOverlapWith
      grid == StudentSlotGrid(ss)
  IN  UNION {IF Cardinality(grid[tk]) > 1
             THEN {[kind |-> "student-group-overlap",
                    g1 |-> p[1], g2 |-> p[2], time_key |-> tk] :
                     p \in {q \in PairsVisited(ListOf(grid[tk], order)) :
                              q[2] \in OverlapGet(overlap_map, q[1])}}
             ELSE {} : tk \in DOMAIN grid}

\* total_students of one session, lines 188-191
RECURSIVE TotalStudents(_, _)
TotalStudents(group_ids, groups_map) ==
  IF group_ids = <<>> THEN 0
  ELSE (IF Head(group_ids) \in DOMAIN groups_map
        THEN groups_map[Head(group_ids)].studentCount ELSE 0)
       + TotalStudents(Tail(group_ids), groups_map)

\* variant: a full room is already a violation
room_capacity_at_least(ss, rooms, groups_map) ==
  LET Violates(s) ==
        /\ ~ Falsy(s.roomId)
        /\ s.roomId \in DOMAIN rooms
        /\ TotalStudents(s.studentGroupIds, groups_map) >= rooms[s.roomId].capacity
      bad == SelectSeq(ss, Violates)
  IN  [i \in DOMAIN bad |->
         [kind |-> "room-capacity", sessionId |-> bad[i].sessionId,
          total |-> TotalStudents(bad[i].studentGroupIds, groups_map),
          roomId |-> bad[i].roomId,
          capacity |-> rooms[bad[i].roomId].capacity]]

_analyze_room_capacity(ss, rooms, groups_map) ==
  LET Violates(s) ==
        /\ ~ Falsy(s.roomId)
        /\ s.roomId \in DOMAIN rooms
        /\ TotalStudents(s.studentGroupIds, groups_map) > rooms[s.roomId].capacity
      bad == SelectSeq(ss, Violates)
  IN  [i \in DOMAIN bad |->
         [kind |-> "room-capacity", sessionId |-> bad[i].sessionId,
          total |-> TotalStudents(bad[i].studentGroupIds, groups_map),
          roomId |-> bad[i].roomId,
          capacity |-> rooms[bad[i].roomId].capacity]]

\* the characters of a slotId
SlotText(slot) ==
  CASE slot = "S1" -> <<"S", "1">>
    [] slot = "S2" -> <<"S", "2">>
    [] slot = "S3" -> <<"S", "3">>
    [] slot = "S4" -> <<"S", "4">>
    [] slot = "S1+S2" -> <<"S", "1", "+", "S", "2">>
    [] slot = "S2+S3" -> <<"S", "2", "+", "S", "3">>
    [] slot = "S3+S4" -> <<"S", "3", "+", "S", "4">>

DigitVal(c) ==
  CASE c = "0" -> 0 [] c = "1" -> 1 [] c = "2" -> 2 [] c = "3" -> 3
    [] c = "4" -> 4 [] c = "5" -> 5 [] c = "6" -> 6 [] c = "7" -> 7
    [] c = "8" -> 8 [] c = "9" -> 9

\* int(text) for a string of digits
RECURSIVE IntOf(_)
IntOf(text) ==
  IF text = <<>> THEN 0
  ELSE 10 * IntOf(SubSeq(text, 1, Len(text) - 1)) + DigitVal(text[Len(text)])

\* text.split('+')[0]
RECURSIVE FirstPart(_)
FirstPart(text) ==
  IF text = <<>> \/ Head(text) = "+" THEN <<>>
  ELSE <<Head(text)>> \o FirstPart(Tail(text))

\* int(slot.replace('S', '').split('+')[0])
slot_num(slot) ==
  LET NotS(c) == c # "S"
  IN  IntOf(FirstPart(SelectSeq(SlotText(slot), NotS)))

\* position of a day name in the ordering of Python string comparison
DayRank(day) ==
  CASE day = "Fri" -> 1 [] day = "Mon" -> 2 [] day = "Sat" -> 3
    [] day = "Thu" -> 4 [] day = "Tue" -> 5 [] day = "Wed" -> 6

\* tuple comparison of (day, slot_num)
ScheduleLess(a, b) ==
  \/ DayRank(a[1]) < DayRank(b[1])
  \/ a[1] = b[1] /\ a[2] < b[2]

\* the loop over one faculty's sorted schedule, lines 216-228: the day of the
\* issue it appends before `break`, or None
RECURSIVE ConsecutiveScan(_, _, _, _)
ConsecutiveScan(schedule, i, consecutive_count, max) ==
  IF i > Len(schedule) THEN None
  ELSE LET count == IF /\ schedule[i - 1][1] = schedule[i][1]
                       /\ schedule[i][2] = schedule[i - 1][2] + 1
                    THEN consecutive_count + 1 ELSE 1
       IN  IF count > max THEN schedule[i][1]
           ELSE ConsecutiveScan(schedule, i + 1, count, max)

_analyze_faculty_workload(ss, max) ==
  LET placed == SelectSeq(ss, Placed)
      faculty == {placed[i].facultyId : i \in DOMAIN placed}
      ScheduleOf(fac_id) ==
        LET Mine(s) == s.facultyId = fac_id
            mine == SelectSeq(placed, Mine)
        IN  SortSeq([i \in DOMAIN mine |-> <<mine[i].day, slot_num(mine[i].slotId)>>],
                    ScheduleLess)
  IN  {[kind |-> "faculty-workload", facultyId |-> f, max |-> max,
        day |-> ConsecutiveScan(ScheduleOf(f), 2, 1, max)] :
         f \in {g \in faculty : ConsecutiveScan(ScheduleOf(g), 2, 1, max) # None}}

\* analyze(): the five finding lists and the summary flag
analyze(ss, constraints, rooms, groups_map, max, order) ==
  LET faculty_conflicts == _analyze_faculty_conflicts(EntityGrid(ss, "facultyId"))
      room_conflicts == _analyze_room_conflicts(EntityGrid(ss, "roomId"))
      student_conflicts == _analyze_student_group_conflicts(ss, constraints, order)
      capacity_violations == _analyze_room_capacity(ss, rooms, groups_map)
      workload_violations == _analyze_faculty_workload(ss, max)
  IN  [faculty_conflicts |-> faculty_conflicts,
       room_conflicts |-> room_conflicts,
       student_conflicts |-> student_conflicts,
       capacity_violations |-> capacity_violations,
       workload_violations |-> workload_violations,
       hard_conflicts_found |->
          \/ faculty_conflicts # <<>> \/ room_conflicts # <<>>
          \/ student_conflicts # {} \/ capacity_violations # <<>>]

NoReport == [faculty_conflicts |-> <<>>, room_conflicts |-> <<>>,
             student_conflicts |-> {}, capacity_violations |-> <<>>,
             workload_violations |-> {}, hard_conflicts_found |-> FALSE]

\* every ordering of a set as a list
RECURSIVE Orderings(_)
Orderings(S) ==
  IF S = {} THEN {<<>>}
  ELSE UNION {{<<x>> \o t : t \in Orderings(S \ {x})} : x \in S}

(***************************************************************************)
(* Stage 3: the overlap matrix is generated from the loaded groups         *)
(***************************************************************************)
RegularGroupLists == {<<"MCA_SEM3_A", "MCA_SEM3_B">>}

ElectiveGroupLists == {<<"ELEC_AD_A1", "ELEC_AD_B1", "ELEC_SS_G1">>,
                       <<"ELEC_SS_G1", "ELEC_AD_A1">>}

VerifierIdle ==
  /\ sessions = <<>>
  /\ overlap_constraints = NoMatrix
  /\ rooms_map = <<>>
  /\ student_groups_map = <<>>
  /\ max_consecutive = 0
  /\ report = NoReport

BuilderIdle ==
  /\ assignments = <<>>
  /\ subjects_data = <<>>
  /\ room_preferences = <<>>

ValidatorIdle ==
  /\ files = <<>>
  /\ errors = <<>>
  /\ warnings = <<>>
  /\ results = <<>>

InitMatrix ==
  /\ pc = "stage3"
  /\ raised = None
  /\ BuilderIdle
  /\ ValidatorIdle
  /\ regular_groups \in RegularGroupLists
  /\ elective_groups \in ElectiveGroupLists
  /\ hierarchy \in Hierarchies
  /\ matrix = NoMatrix
  /\ VerifierIdle

\* OverlapMatrixGenerator(loader).generate_matrix()
GenerateMatrix ==
  /\ pc = "stage3"
  /\ matrix' = generate_matrix(hierarchy,
                               _get_all_group_ids(regular_groups, elective_groups))
  /\ pc' = "stage3_done"
  /\ raised' = None
  /\ UNCHANGED <<regular_groups, elective_groups, hierarchy>>
  /\ UNCHANGED verifierVars
  /\ UNCHANGED builderVars
  /\ UNCHANGED validatorVars

NextMatrix == GenerateMatrix

SpecMatrix == InitMatrix /\ [][NextMatrix]_vars

\* generator.generate_matrix() called once more on the same generator
GenerateMatrixAgain ==
  /\ pc = "stage3_done"
  /\ matrix' = generate_matrix(hierarchy,
                               _get_all_group_ids(regular_groups, elective_groups))
  /\ pc' = "stage3_again"
  /\ raised' = None
  /\ UNCHANGED <<regular_groups, elective_groups, hierarchy>>
  /\ UNCHANGED verifierVars
  /\ UNCHANGED builderVars
  /\ UNCHANGED validatorVars

NextRebuild == GenerateMatrix \/ GenerateMatrixAgain

SpecRebuild == InitMatrix /\ [][NextRebuild]_vars

(***************************************************************************)
(* Stage 6: a placed schedule is analysed against the stored matrix        *)
(***************************************************************************)
\* number of sessions in the analysed timetable
MaxSessions == 2

Placements == {<<"Mon", "S1">>, <<"Mon", "S2">>, <<"Mon", "S1+S2">>,
               <<None, "S1">>, <<"Mon", None>>}

FacultyIds == {"F1", "F2"}

RoomIds == {"R1", "R2"}

SessionGroupLists == {<<"MCA_SEM3_A">>, <<"MCA_SEM3_B">>, <<"ELEC_SS_G1">>,
                      <<"MCA_SEM3_A", "ELEC_SS_G1">>}

\* sessionId as numbered by the enrichment step
SessionIdOf(n) == <<"S_", n>>

SessionChoices ==
  {[day |-> p[1], slotId |-> p[2], facultyId |-> f, roomId |-> r,
    studentGroupIds |-> gl] :
     p \in Placements, f \in FacultyIds, r \in RoomIds, gl \in SessionGroupLists}

\* the session list built from one choice per position
SessionList(c) ==
  [i \in DOMAIN c |->
     [sessionId |-> SessionIdOf(i), day |-> c[i].day,
      slotId |-> c[i].slotId, facultyId |-> c[i].facultyId,
      roomId |-> c[i].roomId, studentGroupIds |-> c[i].studentGroupIds]]

\* the hierarchy of the shipped data, and no hierarchy at all
SemesterLinks ==
  {[kind |-> "child", of |-> "MCA_SEM3_A", val |-> <<"ELEC_AD_A1">>],
   [kind |-> "child", of |-> "MCA_SEM3_A", val |-> <<"ELEC_SS_G1">>],
   [kind |-> "child", of |-> "MCA_SEM3_B", val |-> <<"ELEC_AD_B1">>],
   [kind |-> "child", of |-> "MCA_SEM3_B", val |-> <<"ELEC_SS_G1">>],
   [kind |-> "parent", of |-> "ELEC_AD_A1", val |-> <<"MCA_SEM3_A">>],
   [kind |-> "parent", of |-> "ELEC_AD_B1", val |-> <<"MCA_SEM3_B">>],
   [kind |-> "parents", of |-> "ELEC_SS_G1", val |-> <<"MCA_SEM3_A", "MCA_SEM3_B">>]}

StoredHierarchies == {HierarchyOf({}), HierarchyOf(SemesterLinks)}

RoomRecords ==
  [r \in RoomIds |-> [capacity |-> IF r = "R1" THEN 60 ELSE 30]]

GroupRecords ==
  [g \in GroupIds |-> [studentCount |-> IF g = "ELEC_SS_G1" THEN 35 ELSE 30]]

InitVerify ==
  /\ pc = "stage6"
  /\ raised = None
  /\ BuilderIdle
  /\ ValidatorIdle
  /\ regular_groups = <<"MCA_SEM3_A", "MCA_SEM3_B">>
  /\ elective_groups = <<"ELEC_AD_A1", "ELEC_AD_B1", "ELEC_SS_G1">>
  /\ hierarchy \in StoredHierarchies
  /\ matrix = generate_matrix(hierarchy,
                              _get_all_group_ids(regular_groups, elective_groups))
  /\ overlap_constraints = matrix
  /\ \E n \in 1..MaxSessions : \E c \in [1..n -> SessionChoices] :
       sessions = SessionList(c)
  /\ rooms_map = RoomRecords
  /\ student_groups_map = GroupRecords
  /\ max_consecutive = 1
  /\ report = NoReport

GroupsPlaced(ss) ==
  UNION {Range(ss[i].studentGroupIds) : i \in {j \in DOMAIN ss : Placed(ss[j])}}

\* ScheduleAnalyzer.analyze(); the iteration order of a set of strings is
\* fixed per run and not determined by the program
Analyze ==
  /\ pc = "stage6"
  /\ \E order \in Orderings(GroupsPlaced(sessions)) :
       report' = analyze(sessions, overlap_constraints, rooms_map,
                         student_groups_map, max_consecutive, order)
  /\ pc' = "stage6_done"
  /\ raised' = None
  /\ UNCHANGED <<sessions, overlap_constraints, rooms_map, student_groups_map,
                 max_consecutive>>
  /\ UNCHANGED matrixVars
  /\ UNCHANGED builderVars
  /\ UNCHANGED validatorVars

NextVerify == Analyze

SpecVerify == InitVerify /\ [][NextVerify]_vars

(***************************************************************************)
(* Stage 6: a schedule whose sessions may name unknown rooms or groups     *)
(***************************************************************************)
\* number of sessions in the analysed timetable
MaxRefSessions == 4

RefDays == {"Mon", "Tue"}

RefSlots == {"S1", "S2"}

\* R9 is not in the room records, GHOST is not in the group records
RefResources ==
  {[facultyId |-> "F1", roomId |-> "R1", studentGroupIds |-> <<"MCA_SEM3_A">>],
   [facultyId |-> "F1", roomId |-> "R9", studentGroupIds |-> <<"MCA_SEM3_A">>],
   [facultyId |-> "F1", roomId |-> "R2", studentGroupIds |-> <<"GHOST">>],
   [facultyId |-> "F2", roomId |-> "R2", studentGroupIds |-> <<"MCA_SEM3_B">>]}

RefChoices ==
  {[day |-> d, slotId |-> sl, facultyId |-> r.facultyId, roomId |-> r.roomId,
    studentGroupIds |-> r.studentGroupIds] :
     d \in RefDays, sl \in RefSlots, r \in RefResources}

InitRefs ==
  /\ pc = "stage6"
  /\ raised = None
  /\ BuilderIdle
  /\ ValidatorIdle
  /\ regular_groups = <<"MCA_SEM3_A", "MCA_SEM3_B">>
  /\ elective_groups = <<"ELEC_AD_A1", "ELEC_AD_B1", "ELEC_SS_G1">>
  /\ hierarchy = HierarchyOf(SemesterLinks)
  /\ matrix = generate_matrix(hierarchy,
                              _get_all_group_ids(regular_groups, elective_groups))
  /\ overlap_constraints = matrix
  /\ \E n \in 1..MaxRefSessions : \E c \in [1..n -> RefChoices] :
       sessions = SessionList(c)
  /\ rooms_map = RoomRecords
  /\ student_groups_map = GroupRecords
  /\ max_consecutive = 1
  /\ report = NoReport

NextRefs == Analyze

SpecRefs == InitRefs /\ [][NextRefs]_vars

(***************************************************************************)
(* ConstraintBuilder (scripts/stage3/constraint_builder.py)                *)
(***************************************************************************)
\* list(a_set): the members in some order
RECURSIVE ListOfSet(_)
ListOfSet(S) ==
  IF S = {} THEN <<>>
  ELSE LET x == CHOOSE y \in S : TRUE
       IN  <<x>> \o ListOfSet(S \ {x})

\* variant: each group replaces the conflicts collected so far
conflicts_of_last_group(assignment, overlap_matrix) ==
  LET ids == assignment.studentGroupIds
      cannot_overlap == overlap_matrix.cannotOverlapWith
      known == SelectSeq(ids, LAMBDA g : g \in DOMAIN cannot_overlap)
  IN  IF known = <<>> THEN <<>>
      ELSE Sorted(ListOfSet(Range(cannot_overlap[known[Len(known)]])))

_get_student_group_conflicts(assignment, overlap_matrix) ==
  LET student_group_ids == assignment.studentGroupIds
      cannot_overlap == overlap_matrix.cannotOverlapWith
      conflicts == UNION {Range(cannot_overlap[group_id]) :
                            group_id \in Range(student_group_ids)
                                         \cap DOMAIN cannot_overlap}
  IN  Sorted(ListOfSet(conflicts))

\* a fixedTiming that is None (or has neither day nor slots)
NoFixedTiming == [day |-> None, slots |-> None]

\* DataLoaderStage2.get_subject_by_code: the index of the first subject with
\* the code, 0 for None
get_subject_by_code(subjects, subject_code) ==
  LET hits == {i \in DOMAIN subjects : subjects[i].subjectCode = subject_code}
  IN  IF hits = {} THEN 0 ELSE CHOOSE i \in hits : \A j \in hits : i <= j

\* variant: the timing of the first subject that has one, whatever its code
fixed_timing_of_any_subject(assignment, subjects) ==
  LET hits == {i \in DOMAIN subjects : subjects[i].hasFixedTiming}
  IN  IF hits = {} THEN NoFixedTiming
      ELSE subjects[CHOOSE i \in hits : \A j \in hits : i <= j].fixedTiming

_get_fixed_timing(assignment, subjects) ==
  LET subject == get_subject_by_code(subjects, assignment.subjectCode)
  IN  IF subject # 0 /\ subjects[subject].hasFixedTiming
      THEN subjects[subject].fixedTiming
      ELSE NoFixedTiming

\* DataLoaderStage2.get_room_preferences_for_subject: the index of the first
\* matching preference, 0 for None
get_room_preferences_for_subject(prefs, subject_code, component_type, student_group_id) ==
  LET hits == {i \in DOMAIN prefs :
                 /\ prefs[i].subjectCode = subject_code
                 /\ prefs[i].componentType = component_type
                 /\ prefs[i].studentGroupId = student_group_id}
  IN  IF hits = {} THEN 0 ELSE CHOOSE i \in hits : \A j \in hits : i <= j

\* f"{component_id}_{section}"
section_key(component_id, section) == Tokens(component_id) \o <<section>>

\* the body of the loop of _get_pre_allocated_room for one group: the room it
\* returns, or None when the loop goes on
RoomOfGroup(assignment, prefs, student_group_id) ==
  LET room_pref == get_room_preferences_for_subject(prefs, assignment.subjectCode,
                      assignment.componentType, student_group_id)
      component_id == assignment.componentId
      section == IF assignment.sections # <<>> THEN assignment.sections[1] ELSE ""
  IN  IF room_pref # 0 /\ prefs[room_pref].hasRoomAllocations
      THEN LET allocations == prefs[room_pref].roomAllocations
           IN  IF /\ component_id # None /\ section # ""
                  /\ section_key(component_id, section) \in DOMAIN allocations
               THEN allocations[section_key(component_id, section)]
               ELSE IF component_id # None /\ Tokens(component_id) \in DOMAIN allocations
               THEN allocations[Tokens(component_id)]
               ELSE None
      ELSE None

\* the loop of _get_pre_allocated_room over the remaining student groups
RECURSIVE RoomOfGroups(_, _, _)
RoomOfGroups(assignment, prefs, ids) ==
  IF ids = <<>> THEN None
  ELSE IF RoomOfGroup(assignment, prefs, Head(ids)) # None
       THEN RoomOfGroup(assignment, prefs, Head(ids))
       ELSE RoomOfGroups(assignment, prefs, Tail(ids))

\* variant: the section key of every group is tried before any component key
room_section_keys_first(assignment, prefs) ==
  LET ids == assignment.studentGroupIds
      PrefOf(n) == get_room_preferences_for_subject(prefs, assignment.subjectCode,
                      assignment.componentType, ids[n])
      Has(n, key) == /\ PrefOf(n) # 0
                     /\ prefs[PrefOf(n)].hasRoomAllocations
                     /\ key \in DOMAIN prefs[PrefOf(n)].roomAllocations
      by_section == IF assignment.sections # <<>>
                    THEN section_key(assignment.componentId, assignment.sections[1])
                    ELSE <<>>
      by_component == Tokens(assignment.componentId)
      First(key) == CHOOSE n \in DOMAIN ids :
                      Has(n, key) /\ \A m \in DOMAIN ids : Has(m, key) => n <= m
  IN  IF \E n \in DOMAIN ids : Has(n, by_section)
      THEN prefs[PrefOf(First(by_section))].roomAllocations[by_section]
      ELSE IF \E n \in DOMAIN ids : Has(n, by_component)
      THEN prefs[PrefOf(First(by_component))].roomAllocations[by_component]
      ELSE None

_get_pre_allocated_room(assignment, prefs) ==
  RoomOfGroups(assignment, prefs, assignment.studentGroupIds)

build_constraints(assignment, overlap_matrix, subjects, prefs) ==
  LET fixed_timing == IF assignment.isDiffSubject
                      THEN _get_fixed_timing(assignment, subjects)
                      ELSE NoFixedTiming
  IN  [studentGroupConflicts |->
          _get_student_group_conflicts(assignment, overlap_matrix),
       facultyConflicts |-> <<assignment.facultyId>>,
       fixedDay |-> fixed_timing.day,
       fixedSlot |-> fixed_timing.slots,
       mustBeInRoom |-> _get_pre_allocated_room(assignment, prefs)]

\* variant: the conflicts collected for earlier assignments are carried over
constraints_carried_over(list, overlap_matrix, subjects, prefs) ==
  [i \in DOMAIN list |->
     [list[i] EXCEPT !.constraints =
        [build_constraints(list[i], overlap_matrix, subjects, prefs)
           EXCEPT !.studentGroupConflicts =
             Sorted(ListOfSet(UNION {
               Range(_get_student_group_conflicts(list[k], overlap_matrix)) :
                 k \in 1..i}))]]]

build_constraints_for_assignments(list, overlap_matrix, subjects, prefs) ==
  [i \in DOMAIN list |->
     [list[i] EXCEPT !.constraints =
        build_constraints(list[i], overlap_matrix, subjects, prefs)]]

\* the constraints object of an assignment before it is built
NoConstraints == [studentGroupConflicts |-> <<>>, facultyConflicts |-> <<>>,
                  fixedDay |-> None, fixedSlot |-> None, mustBeInRoom |-> None]

(***************************************************************************)
(* Stage 3: constraints are built for the teaching assignments             *)
(***************************************************************************)
\* number of teaching assignments handed to the builder
MaxAssignments == 2

AssignmentGroupLists == {<<"MCA_SEM3_A", "MCA_SEM3_B">>, <<"ELEC_SS_G1">>,
                         <<"MCA_SEM3_A", "GHOST">>}

SubjectCodes == {"24MCA32", "24MCA99"}

AssignmentChoices ==
  {[studentGroupIds |-> gl, sections |-> sec, isDiffSubject |-> d,
    subjectCode |-> sc] :
     gl \in AssignmentGroupLists, sec \in {<<"A">>, <<>>}, d \in BOOLEAN,
     sc \in SubjectCodes}

\* AssignmentGenerator._get_component_id for a practical
ComponentIdOf(subject_code) ==
  IF subject_code = "24MCA32" THEN "24MCA32_PR" ELSE "24MCA99_PR"

\* the assignment list built from one choice per position
AssignmentList(c) ==
  [i \in DOMAIN c |->
     [assignmentId |-> <<"TA_", i>>, subjectCode |-> c[i].subjectCode,
      componentId |-> ComponentIdOf(c[i].subjectCode),
      componentType |-> "practical",
      facultyId |-> "F1", sections |-> c[i].sections,
      studentGroupIds |-> c[i].studentGroupIds,
      isDiffSubject |-> c[i].isDiffSubject, constraints |-> NoConstraints]]

\* subjects.json: 24MCA32 with or without a fixedTiming; 24MCA99 is not there
SubjectLists ==
  {<<[subjectCode |-> "24MCA32", hasFixedTiming |-> TRUE,
      fixedTiming |-> [day |-> "Tue", slots |-> "S6"]]>>,
   <<[subjectCode |-> "24MCA32", hasFixedTiming |-> FALSE,
      fixedTiming |-> NoFixedTiming]>>}

\* what roomPreferences.json holds for one group of 24MCA32 practicals
PreferenceShapes == {"absent", "bare", "component", "section", "both"}

AllocatedRoom(g, by_section) ==
  IF g = "MCA_SEM3_A" THEN (IF by_section THEN "R2" ELSE "R1")
  ELSE (IF by_section THEN "R4" ELSE "R3")

AllocationsOf(g, shape) ==
  LET keys == CASE shape = "component" -> {<<"24MCA32", "PR">>}
                [] shape = "section"   -> {<<"24MCA32", "PR", "A">>}
                [] shape = "both"      -> {<<"24MCA32", "PR">>, <<"24MCA32", "PR", "A">>}
                [] OTHER               -> {}
  IN  [k \in keys |-> AllocatedRoom(g, Len(k) = 3)]

PreferenceOf(g, shape) ==
  IF shape = "absent" THEN <<>>
  ELSE <<[subjectCode |-> "24MCA32", componentType |-> "practical",
          studentGroupId |-> g, hasRoomAllocations |-> shape # "bare",
          roomAllocations |-> AllocationsOf(g, shape)]>>

PreferenceLists ==
  {PreferenceOf("MCA_SEM3_A", a) \o PreferenceOf("MCA_SEM3_B", b) :
     a \in PreferenceShapes, b \in PreferenceShapes}

InitBuild ==
  /\ pc = "stage3_build"
  /\ raised = None
  /\ ValidatorIdle
  /\ regular_groups = <<"MCA_SEM3_A", "MCA_SEM3_B">>
  /\ elective_groups = <<"ELEC_AD_A1", "ELEC_AD_B1", "ELEC_SS_G1">>
  /\ hierarchy = HierarchyOf(SemesterLinks)
  /\ matrix = generate_matrix(hierarchy,
                              _get_all_group_ids(regular_groups, elective_groups))
  /\ VerifierIdle
  /\ \E n \in 1..MaxAssignments : \E c \in [1..n -> AssignmentChoices] :
       assignments = AssignmentList(c)
  /\ subjects_data \in SubjectLists
  /\ room_preferences \in PreferenceLists

\* ConstraintBuilder(loader, overlap_matrix).build_constraints_for_assignments()
BuildConstraints ==
  /\ pc = "stage3_build"
  /\ assignments' = build_constraints_for_assignments(assignments, matrix,
                                                      subjects_data, room_preferences)
  /\ pc' = "stage3_built"
  /\ raised' = None
  /\ UNCHANGED <<subjects_data, room_preferences>>
  /\ UNCHANGED matrixVars
  /\ UNCHANGED verifierVars
  /\ UNCHANGED validatorVars

NextBuild == BuildConstraints

SpecBuild == InitBuild /\ [][NextBuild]_vars

(***************************************************************************)
(* Stage 3: Stage3Validator (validate_stage3.py)                           *)
(*                                                                         *)
(* A JSON value is a record of its type and its content: n for an int, s   *)
(* for a str, l for a list.  An assignment is a function from the fields   *)
(* it has to their values; its constraints object is a function of its     *)
(* own.  A message is a record of the file, the assignment index (0 for    *)
(* the file itself), the text and the field or value the text names.       *)
(***************************************************************************)
IntV(n) == [t |-> "int", n |-> n, s |-> "", l |-> <<>>]

StrV(s) == [t |-> "str", n |-> 0, s |-> s, l |-> <<>>]

ListV(l) == [t |-> "list", n |-> 0, s |-> "", l |-> l]

BoolV(b) == [t |-> "bool", n |-> IF b THEN 1 ELSE 0, s |-> "", l |-> <<>>]

DictV == [t |-> "dict", n |-> 0, s |-> "", l |-> <<>>]

NullV == [t |-> "null", n |-> 0, s |-> "", l |-> <<>>]

\* Python's truth value of a JSON value (`not assignment.get(...)`)
Truthy(v) ==
  CASE v.t = "int" -> v.n # 0
    [] v.t = "bool" -> v.n # 0
    [] v.t = "str" -> v.s # ""
    [] v.t = "list" -> v.l # <<>>
    [] v.t = "dict" -> TRUE
    [] OTHER -> FALSE

\* assignment.get(field): None when the field is absent
Get(assignment, field) ==
  IF field \in DOMAIN assignment THEN assignment[field] ELSE NullV

Message(filename, index, text, arg) ==
  [file |-> filename, index |-> index, text |-> text, arg |-> arg]

\* one append, made when the condition holds
When(cond, message) == IF cond THEN <<message>> ELSE <<>>

RECURSIVE MissingOf(_, _, _, _, _)
\* `for field in required: if field not in d: errors.append(...)`
MissingOf(required, present, filename, index, text) ==
  IF required = <<>> THEN <<>>
  ELSE When(Head(required) \notin present,
            Message(filename, index, text, Head(required)))
       \o MissingOf(Tail(required), present, filename, index, text)

required_keys == <<"metadata", "assignments", "statistics">>

required_fields ==
  <<"assignmentId", "subjectCode", "subjectTitle", "componentId",
    "componentType", "semester", "facultyId", "facultyName",
    "studentGroupIds", "sections", "sessionDuration", "sessionsPerWeek",
    "requiresRoomType", "preferredRooms", "requiresContiguous",
    "blockSizeSlots", "priority", "isElective", "isDiffSubject",
    "constraints">>

required_constraint_fields ==
  <<"studentGroupConflicts", "facultyConflicts",
    "fixedDay", "fixedSlot", "mustBeInRoom">>

valid_components == {"theory", "practical", "tutorial"}

valid_priorities == {"high", "medium", "low"}

valid_room_types == {"lecture", "lab"}

\* `x not in valid` for a value read with .get()
NotAmong(v, valid) == ~(v.t = "str" /\ v.s \in valid)

\* the errors and warnings _validate_constraints appends
_validate_constraints(constraints, filename, index) ==
  LET has(field) == field \in DOMAIN constraints
      isList(field) == constraints[field].t = "list"
  IN [errors |->
        MissingOf(required_constraint_fields, DOMAIN constraints,
                  filename, index, "Constraints missing field")
        \o When(has("studentGroupConflicts")
                  /\ ~isList("studentGroupConflicts"),
                Message(filename, index, "must be a list",
                        "studentGroupConflicts"))
        \o When(has("facultyConflicts") /\ ~isList("facultyConflicts"),
                Message(filename, index, "must be a list",
                        "facultyConflicts")),
      warnings |->
        When(has("facultyConflicts") /\ isList("facultyConflicts")
               /\ ~Truthy(constraints["facultyConflicts"]),
             Message(filename, index, "facultyConflicts is empty", ""))]

\* the errors and warnings _validate_assignment appends for one assignment
_validate_assignment(assignment, index, filename) ==
  LET fields == assignment.fields
      has(field) == field \in DOMAIN fields
      notA(field, type) == has(field) /\ fields[field].t # type
      nested == IF has("constraints")
                THEN _validate_constraints(assignment.constraints,
                                           filename, index)
                ELSE [errors |-> <<>>, warnings |-> <<>>]
      number(field) == IF has(field) THEN fields[field].n ELSE 0
  IN [errors |->
        MissingOf(required_fields, DOMAIN fields, filename, index,
                  "Missing required field")
        \o When(notA("sessionDuration", "int"),
                Message(filename, index, "must be an integer",
                        "sessionDuration"))
        \o When(notA("sessionsPerWeek", "int"),
                Message(filename, index, "must be an integer",
                        "sessionsPerWeek"))
        \o When(notA("studentGroupIds", "list"),
                Message(filename, index, "must be a list",
                        "studentGroupIds"))
        \o When(notA("sections", "list"),
                Message(filename, index, "must be a list", "sections"))
        \o When(notA("preferredRooms", "list"),
                Message(filename, index, "must be a list", "preferredRooms"))
        \o nested.errors
        \o When(NotAmong(Get(fields, "componentType"), valid_components),
                Message(filename, index, "Invalid componentType",
                        Get(fields, "componentType").s))
        \o When(NotAmong(Get(fields, "priority"), valid_priorities),
                Message(filename, index, "Invalid priority",
                        Get(fields, "priority").s))
        \o When(NotAmong(Get(fields, "requiresRoomType"), valid_room_types),
                Message(filename, index, "Invalid requiresRoomType",
                        Get(fields, "requiresRoomType").s))
        \o When(number("sessionsPerWeek") <= 0,
                Message(filename, index, "must be > 0", "sessionsPerWeek"))
        \o When(number("sessionDuration") <= 0,
                Message(filename, index, "must be > 0", "sessionDuration"))
        \o When(~Truthy(Get(fields, "studentGroupIds")),
                Message(filename, index, "cannot be empty",
                        "studentGroupIds"))
        \o When(~Truthy(Get(fields, "sections")),
                Message(filename, index, "cannot be empty", "sections")),
      warnings |-> nested.warnings]

\* the first required key the data lacks, None when it has them all
FirstMissingKey(data) ==
  LET missing == SelectSeq(required_keys, LAMBDA k : k \notin data.keys)
  IN IF missing = <<>> THEN None ELSE Head(missing)

\* what _validate_structure appends, and what it returns
_validate_structure(data, filename) ==
  IF FirstMissingKey(data) # None
  THEN [errors |-> <<Message(filename, 0, "Missing required key",
                             FirstMissingKey(data))>>,
        warnings |-> <<>>,
        ok |-> FALSE]
  ELSE [errors |->
          When("semester" \notin data.metadata,
               Message(filename, 0, "Metadata missing", "semester"))
          \o When("totalAssignments" \notin data.metadata,
                  Message(filename, 0, "Metadata missing",
                          "totalAssignments")),
        warnings |->
          When(~("totalAssignments" \in data.metadata
                   /\ data.totalAssignments = Len(data.assignments)),
               Message(filename, 0, "totalAssignments doesn't match", "")),
        ok |-> TRUE]

RECURSIVE ValidateEach(_, _, _)
\* `for i, assignment in enumerate(assignments, 1)`: the appends of the
\* assignments from index i on
ValidateEach(list, i, filename) ==
  IF i > Len(list) THEN [errors |-> <<>>, warnings |-> <<>>]
  ELSE LET one == _validate_assignment(list[i], i, filename)
           rest == ValidateEach(list, i + 1, filename)
       IN [errors |-> one.errors \o rest.errors,
           warnings |-> one.warnings \o rest.warnings]

\* validate_file: the validator's lists after the call, and what it returns
validate_file(self, file, filename) ==
  IF ~file.exists
  THEN [errors |-> Append(self.errors,
                          Message(filename, 0, "File not found", "")),
        warnings |-> self.warnings,
        ok |-> FALSE]
  ELSE IF ~file.parses
  THEN [errors |-> Append(self.errors,
                          Message(filename, 0, "Invalid JSON", "")),
        warnings |-> self.warnings,
        ok |-> FALSE]
  ELSE LET structure == _validate_structure(file, filename)
           each == ValidateEach(file.assignments, 1, filename)
       IN IF ~structure.ok
          THEN [errors |-> self.errors \o structure.errors,
                warnings |-> self.warnings \o structure.warnings,
                ok |-> FALSE]
          ELSE [errors |-> self.errors \o structure.errors \o each.errors,
                warnings |->
                  self.warnings \o structure.warnings \o each.warnings,
                ok |-> Len(self.errors \o structure.errors \o each.errors)
                         = 0]

(***************************************************************************)
(* Stage 3: one validator validates files, one call after another          *)
(***************************************************************************)
\* number of validate_file calls made on the validator
MaxCalls == 3

\* the two files main() validates
FileNames == {"teachingAssignments_sem1.json",
              "teachingAssignments_sem3.json"}

GoodConstraints ==
  [field \in Range(required_constraint_fields) |->
     CASE field = "studentGroupConflicts" -> ListV(<<"MCA_SEM1_B">>)
       [] field = "facultyConflicts" -> ListV(<<"F001">>)
       [] OTHER -> NullV]

GoodFields ==
  [field \in Range(required_fields) |->
     CASE field = "assignmentId" -> StrV("TA_24MCA11_TH_A_001")
       [] field = "subjectCode" -> StrV("24MCA11")
       [] field = "subjectTitle" -> StrV("Programming")
       [] field = "componentId" -> StrV("24MCA11_TH")
       [] field = "componentType" -> StrV("theory")
       [] field = "semester" -> IntV(1)
       [] field = "facultyId" -> StrV("F001")
       [] field = "facultyName" -> StrV("Faculty")
       [] field = "studentGroupIds" -> ListV(<<"MCA_SEM1_A">>)
       [] field = "sections" -> ListV(<<"A">>)
       [] field = "sessionDuration" -> IntV(55)
       [] field = "sessionsPerWeek" -> IntV(3)
       [] field = "requiresRoomType" -> StrV("lecture")
       [] field = "preferredRooms" -> ListV(<<>>)
       [] field = "requiresContiguous" -> BoolV(FALSE)
       [] field = "blockSizeSlots" -> IntV(1)
       [] field = "priority" -> StrV("high")
       [] field = "isElective" -> BoolV(FALSE)
       [] field = "isDiffSubject" -> BoolV(FALSE)
       [] OTHER -> DictV]

Without(f, field) == [k \in DOMAIN f \ {field} |-> f[k]]

\* the assignments a file is written with
AssignmentShapes ==
  { [fields |-> GoodFields, constraints |-> GoodConstraints],
    [fields |-> Without(GoodFields, "priority"),
     constraints |-> GoodConstraints],
    [fields |-> Without(GoodFields, "constraints"),
     constraints |-> Without(GoodConstraints, "fixedDay")],
    [fields |-> [GoodFields EXCEPT !["sessionsPerWeek"] = IntV(0)],
     constraints |-> GoodConstraints],
    [fields |-> [GoodFields EXCEPT !["studentGroupIds"] = StrV("MCA_SEM1_A")],
     constraints |-> GoodConstraints],
    [fields |-> [GoodFields EXCEPT !["componentType"] = StrV("seminar")],
     constraints |-> GoodConstraints],
    [fields |-> GoodFields,
     constraints |-> Without(GoodConstraints, "mustBeInRoom")],
    [fields |-> GoodFields,
     constraints |->
       [GoodConstraints EXCEPT !["facultyConflicts"] = ListV(<<>>)]] }

AssignmentListsOf == {<<>>} \cup {<<a>> : a \in AssignmentShapes}

\* what the path holds: no file, a file that is not JSON, or a document
FileShapes ==
  [exists : {FALSE}, parses : {FALSE}, keys : {{}}, metadata : {{}},
   totalAssignments : {0}, assignments : {<<>>}]
  \cup
  [exists : {TRUE}, parses : {FALSE}, keys : {{}}, metadata : {{}},
   totalAssignments : {0}, assignments : {<<>>}]
  \cup
  [exists : {TRUE}, parses : {TRUE},
   keys : {Range(required_keys), {"metadata", "assignments"}},
   metadata : {{"semester", "totalAssignments"}, {"totalAssignments"},
               {"semester"}},
   totalAssignments : {0, 1},
   assignments : AssignmentListsOf]

InitValidate ==
  /\ pc = "stage3_validate"
  /\ raised = None
  /\ regular_groups = <<>>
  /\ elective_groups = <<>>
  /\ hierarchy = <<>>
  /\ matrix = NoMatrix
  /\ VerifierIdle
  /\ BuilderIdle
  /\ files \in [FileNames -> FileShapes]
  /\ errors = <<>>
  /\ warnings = <<>>
  /\ results = <<>>

\* one call validator.validate_file(filename)
ValidateFile(filename) ==
  /\ pc = "stage3_validate"
  /\ Len(results) < MaxCalls
  /\ LET after == validate_file([errors |-> errors, warnings |-> warnings],
                                files[filename], filename)
     IN /\ errors' = after.errors
        /\ warnings' = after.warnings
        /\ results' = Append(results, [file |-> filename, ok |-> after.ok])
  /\ UNCHANGED <<pc, raised, files>>
  /\ UNCHANGED matrixVars
  /\ UNCHANGED verifierVars
  /\ UNCHANGED builderVars

NextValidate == \E filename \in FileNames : ValidateFile(filename)

SpecValidate == InitValidate /\ [][NextValidate]_vars

(***************************************************************************)
(* Properties of the overlap matrix (SpecMatrix)                           *)
(***************************************************************************)
Declared == Range(_get_all_group_ids(regular_groups, elective_groups))

Conflicts(g) == Range(matrix.cannotOverlapWith[g])

Parallel(g) == Range(matrix.canRunParallelWith[g])

DifferentCategories(g1, g2) ==
  /\ _get_elective_category(g1) # None
  /\ _get_elective_category(g2) # None
  /\ _get_elective_category(g1) # _get_elective_category(g2)

\* what a walk of the hierarchy alone would call an overlap
HierarchyRelated(g1, g2) ==
  \/ g1 \in DOMAIN hierarchy /\ g2 \in hierarchy[g1].children
  \/ /\ g1 \in DOMAIN hierarchy /\ g2 \in DOMAIN hierarchy
     /\ hierarchy[g1].hasParent /\ hierarchy[g2].hasParent
     /\ hierarchy[g1].parent = hierarchy[g2].parent
  \/ /\ g1 \in DOMAIN hierarchy /\ g2 \in DOMAIN hierarchy
     /\ hierarchy[g1].hasParents /\ Len(hierarchy[g1].parents) > 1
     /\ \E i \in DOMAIN hierarchy[g1].parents :
          \/ hierarchy[g2].hasParent /\ hierarchy[g2].parent = hierarchy[g1].parents[i]
          \/ /\ hierarchy[g1].parents[i] \in DOMAIN hierarchy
             /\ g2 \in hierarchy[hierarchy[g1].parents[i]].children

C2_Reflexivity ==
  pc = "stage3_done" =>
    \A g \in Declared : g \in Conflicts(g)

\* a generated matrix over a non-empty hierarchy in which a group with a
\* hierarchy entry is listed in its own conflicts
C2_Witness ==
  /\ pc = "stage3_done"
  /\ \E g \in Declared : g \in DOMAIN hierarchy /\ g \in Conflicts(g)

\* C3: Symmetry: both relations of the generated matrix are symmetric, also
\* when the hierarchy declares a relation on one side only.
C3_Symmetry ==
  pc = "stage3_done" =>
    \A g1 \in Declared, g2 \in Declared :
       /\ g2 \in Conflicts(g1) <=> g1 \in Conflicts(g2)
       /\ g2 \in Parallel(g1) <=> g1 \in Parallel(g2)

\* a child listed by its parent that declares no parent itself, in conflict
\* in both directions
C3_Witness ==
  /\ pc = "stage3_done"
  /\ \E p \in Declared, c \in Declared :
       /\ p # c
       /\ p \in DOMAIN hierarchy /\ c \in hierarchy[p].children
       /\ c \notin DOMAIN hierarchy
       /\ c \in Conflicts(p) /\ p \in Conflicts(c)

\* C4: Conflict and parallel are mutually exclusive: no group is in both the
\* cannotOverlapWith and the canRunParallelWith list of another group.
C4_ConflictParallelExclusive ==
  pc = "stage3_done" =>
    \A g1 \in Declared, g2 \in Declared :
       ~ (g2 \in Conflicts(g1) /\ g2 \in Parallel(g1))

\* the two sections, parallel by the pair table, made to conflict by the
\* hierarchy: the pair is a conflict and not parallel
C4_Witness ==
  /\ pc = "stage3_done"
  /\ "MCA_SEM3_B" \in Conflicts("MCA_SEM3_A")
  /\ "MCA_SEM3_B" \notin Parallel("MCA_SEM3_A")

(***************************************************************************)
(* Properties of the schedule verifier (SpecVerify)                        *)
(***************************************************************************)
\* the sessions that have both a day and a slotId
PlacedIdx ==
  {i \in DOMAIN sessions : sessions[i].day # None /\ sessions[i].slotId # None}

SameDaySlot(i, j) ==
  /\ sessions[i].day = sessions[j].day
  /\ sessions[i].slotId = sessions[j].slotId

GroupsOf(i) == {sessions[i].studentGroupIds[k] : k \in DOMAIN sessions[i].studentGroupIds}

\* the student-group findings about the unordered pair {g1, g2} at a day/slot
PairFindings(g1, g2, day, slot) ==
  {f \in report.student_conflicts :
     /\ f.time_key = <<day, slot>>
     /\ {f.g1, f.g2} = {g1, g2}}

\* C5: Zero false negatives for identical-group collisions: two distinct
\* placed sessions at the same day and slotId that list the same group give a
\* student-group finding for that day/slot.
C5_IdenticalGroupCollision ==
  pc = "stage6_done" =>
    \A i \in PlacedIdx, j \in PlacedIdx :
       (i # j /\ SameDaySlot(i, j) /\ GroupsOf(i) \cap GroupsOf(j) # {}) =>
          \E f \in report.student_conflicts :
             f.time_key = <<sessions[i].day, sessions[i].slotId>>

\* C6: With a matrix generated by the builder, every unordered pair of
\* distinct groups present at a day/slot gets exactly one student-group
\* finding when the pair is in cannotOverlapWith and none when it is in
\* canRunParallelWith.
C6_PairFindings ==
  pc = "stage6_done" =>
    \A i \in PlacedIdx, j \in PlacedIdx :
       SameDaySlot(i, j) =>
         \A g1 \in GroupsOf(i), g2 \in GroupsOf(j) :
            g1 # g2 =>
              LET n == Cardinality(PairFindings(g1, g2, sessions[i].day,
                                                sessions[i].slotId))
              IN  /\ g2 \in Range(overlap_constraints.cannotOverlapWith[g1]) => n = 1
                  /\ g2 \in Range(overlap_constraints.canRunParallelWith[g1]) => n = 0

\* two sessions in one slot bring a conflicting pair (reported once) and a
\* parallel pair (not reported)
C6_Witness ==
  /\ pc = "stage6_done"
  /\ \E i \in PlacedIdx, j \in PlacedIdx :
       /\ i # j /\ SameDaySlot(i, j)
       /\ \E g1 \in GroupsOf(i), g2 \in GroupsOf(j) :
            /\ g1 # g2
            /\ g2 \in Range(overlap_constraints.cannotOverlapWith[g1])
            /\ Cardinality(PairFindings(g1, g2, sessions[i].day,
                                        sessions[i].slotId)) = 1
       /\ \E g1 \in GroupsOf(i), g2 \in GroupsOf(j) :
            /\ g2 \in Range(overlap_constraints.canRunParallelWith[g1])
            /\ PairFindings(g1, g2, sessions[i].day, sessions[i].slotId) = {}

\* the ids of the placed sessions of one entity at one day/slot, in list order
OccupantsOf(field, entity, day, slot) ==
  LET Here(s) == /\ s.day # None /\ s.slotId # None
                 /\ s[field] = entity /\ s.day = day /\ s.slotId = slot
      here == SelectSeq(sessions, Here)
  IN  [k \in DOMAIN here |-> here[k].sessionId]

DoubleBookingOk(findings, kind, field) ==
  /\ \A i \in PlacedIdx :
       LET s == sessions[i]
           occ == OccupantsOf(field, s[field], s.day, s.slotId)
           about == {k \in DOMAIN findings :
                       /\ findings[k].id = s[field]
                       /\ findings[k].time_key = <<s.day, s.slotId>>}
       IN  IF Len(occ) > 1
           THEN /\ Cardinality(about) = 1
                /\ \A k \in about : findings[k].sessions = occ
           ELSE about = {}
  /\ \A k \in DOMAIN findings :
       /\ findings[k].kind = kind
       /\ \E i \in PlacedIdx :
            /\ findings[k].id = sessions[i][field]
            /\ findings[k].time_key = <<sessions[i].day, sessions[i].slotId>>

\* C7: Faculty and room double-booking: every (entity, day, slotId) key with
\* more than one placed session gives exactly one finding of the matching
\* kind naming all its sessions, a key with one session gives none.
C7_DoubleBooking ==
  pc = "stage6_done" =>
    /\ DoubleBookingOk(report.faculty_conflicts, "faculty-double-booking", "facultyId")
    /\ DoubleBookingOk(report.room_conflicts, "room-double-booking", "roomId")

\* two sessions of one faculty member in one slot, in different rooms: one
\* faculty finding naming both, no room finding
C7_Witness ==
  /\ pc = "stage6_done"
  /\ \E i \in PlacedIdx, j \in PlacedIdx :
       /\ i < j /\ SameDaySlot(i, j)
       /\ sessions[i].facultyId = sessions[j].facultyId
       /\ sessions[i].roomId # sessions[j].roomId
       /\ Len(report.faculty_conflicts) = 1
       /\ report.faculty_conflicts[1].sessions =
             <<sessions[i].sessionId, sessions[j].sessionId>>
       /\ report.room_conflicts = <<>>

\* the summed headcount of the groups a session lists
RECURSIVE Headcount(_, _)
Headcount(i, n) ==
  IF n = 0 THEN 0
  ELSE Headcount(i, n - 1)
       + student_groups_map[sessions[i].studentGroupIds[n]].studentCount

CapacityFindings(i) ==
  {k \in DOMAIN report.capacity_violations :
     report.capacity_violations[k].sessionId = sessions[i].sessionId}

\* C8: Room capacity: a session in a known room gets exactly one
\* room-capacity finding, citing its id, the summed headcount and the
\* capacity, when the sum is strictly greater than the capacity, and none
\* when the sum is equal or below.
C8_RoomCapacity ==
  pc = "stage6_done" =>
    \A i \in DOMAIN sessions :
       sessions[i].roomId \in DOMAIN rooms_map =>
          LET total == Headcount(i, Len(sessions[i].studentGroupIds))
              capacity == rooms_map[sessions[i].roomId].capacity
          IN  IF total > capacity
              THEN /\ Cardinality(CapacityFindings(i)) = 1
                   /\ \A k \in CapacityFindings(i) :
                        /\ report.capacity_violations[k].total = total
                        /\ report.capacity_violations[k].capacity = capacity
              ELSE CapacityFindings(i) = {}

\* one session over its room's capacity (65 in 60) is reported, another that
\* exactly fills its room is not
C8_Witness ==
  /\ pc = "stage6_done"
  /\ \E i \in DOMAIN sessions, j \in DOMAIN sessions :
       /\ Headcount(i, Len(sessions[i].studentGroupIds)) = 65
       /\ rooms_map[sessions[i].roomId].capacity = 60
       /\ Cardinality(CapacityFindings(i)) = 1
       /\ Headcount(j, Len(sessions[j].studentGroupIds))
             = rooms_map[sessions[j].roomId].capacity
       /\ CapacityFindings(j) = {}

\* slot is one of the two halves of the double slot 'Sx+Sy'
HalfOf(slot, double) ==
  LET text == SlotText(double)
  IN  \E k \in DOMAIN text :
        /\ text[k] = "+"
        /\ \/ SubSeq(text, 1, k - 1) = SlotText(slot)
           \/ SubSeq(text, k + 1, Len(text)) = SlotText(slot)

NamesBoth(findings, i, j) ==
  \E k \in DOMAIN findings :
     {sessions[i].sessionId, sessions[j].sessionId} \subseteq Range(findings[k].sessions)

\* C9: Double-slot sessions cannot evade detection: a session on 'Sx+Sy' and
\* a session on Sx or Sy of the same day that share a faculty id, a room id
\* or a conflicting pair of groups are reported.
C9_DoubleSlotDetected ==
  pc = "stage6_done" =>
    \A i \in PlacedIdx, j \in PlacedIdx :
       (sessions[i].day = sessions[j].day
          /\ HalfOf(sessions[j].slotId, sessions[i].slotId)) =>
         /\ sessions[i].facultyId = sessions[j].facultyId
               => NamesBoth(report.faculty_conflicts, i, j)
         /\ sessions[i].roomId = sessions[j].roomId
               => NamesBoth(report.room_conflicts, i, j)
         /\ \A g1 \in GroupsOf(i), g2 \in GroupsOf(j) :
               (g1 # g2 /\ g2 \in Range(overlap_constraints.cannotOverlapWith[g1]))
                 => \E f \in report.student_conflicts : {f.g1, f.g2} = {g1, g2}

\* the session list without its unplaced sessions
PlacedOnly == SelectSeq(sessions, Placed)

UnplacedIds == {sessions[i].sessionId : i \in (DOMAIN sessions) \ PlacedIdx}

Unoriented(findings) == {<<{f.g1, f.g2}, f.time_key>> : f \in findings}

\* C10: Unplaced sessions are never findings: no hard-conflict finding names
\* a session without day or slotId, and the hard-conflict findings are those
\* of the session list with the unplaced sessions removed.
C10_UnplacedIgnored ==
  pc = "stage6_done" =>
    /\ \A k \in DOMAIN report.faculty_conflicts :
         Range(report.faculty_conflicts[k].sessions) \cap UnplacedIds = {}
    /\ \A k \in DOMAIN report.room_conflicts :
         Range(report.room_conflicts[k].sessions) \cap UnplacedIds = {}
    /\ \A k \in DOMAIN report.capacity_violations :
         report.capacity_violations[k].sessionId \notin UnplacedIds
    /\ report.faculty_conflicts =
         _analyze_faculty_conflicts(EntityGrid(PlacedOnly, "facultyId"))
    /\ report.room_conflicts =
         _analyze_room_conflicts(EntityGrid(PlacedOnly, "roomId"))
    /\ \A order \in Orderings(GroupsPlaced(PlacedOnly)) :
         Unoriented(report.student_conflicts) =
           Unoriented(_analyze_student_group_conflicts(PlacedOnly,
                                                       overlap_constraints, order))
    /\ report.capacity_violations =
         _analyze_room_capacity(PlacedOnly, rooms_map, student_groups_map)

(***************************************************************************)
(* Properties of the constraint builder (SpecBuild)                        *)
(***************************************************************************)
Built == pc = "stage3_built"

\* the conflict lists of the matrix for the groups of an assignment that the
\* matrix knows
ConflictUnion(a) ==
  UNION {Range(matrix.cannotOverlapWith[g]) :
           g \in {x \in Range(a.studentGroupIds) :
                    x \in DOMAIN matrix.cannotOverlapWith}}

\* strictly ascending, hence without duplicates
Ascending(list) ==
  \A m \in DOMAIN list : \A n \in DOMAIN list :
     m < n => StrLess(list[m], list[n])

\* C14 as stated: studentGroupConflicts is the sorted union of the groups'
\* conflict lists with the assignment's own groups taken out
C14_OwnGroupsRemoved ==
  Built =>
    \A i \in DOMAIN assignments :
       LET a == assignments[i]
       IN  /\ Range(a.constraints.studentGroupConflicts)
                = ConflictUnion(a) \ Range(a.studentGroupIds)
           /\ Ascending(a.constraints.studentGroupConflicts)

\* C14 (amended): studentGroupConflicts is the duplicate-free ascending list of
\* the union of cannotOverlapWith[g] over the assignment's groups that are keys
\* of the matrix; the assignment's own groups are not taken out
C14_StudentGroupConflicts ==
  Built =>
    \A i \in DOMAIN assignments :
       LET a == assignments[i]
       IN  /\ Range(a.constraints.studentGroupConflicts) = ConflictUnion(a)
           /\ Ascending(a.constraints.studentGroupConflicts)

C14_Witness ==
  /\ Built
  /\ \E i \in DOMAIN assignments :
       /\ assignments[i].studentGroupIds = <<"MCA_SEM3_A", "MCA_SEM3_B">>
       /\ assignments[i].constraints.studentGroupConflicts
            = <<"ELEC_AD_A1", "ELEC_AD_B1", "ELEC_SS_G1", "MCA_SEM3_A", "MCA_SEM3_B">>

\* the room preference consulted for a group of an assignment: 0 when none
PreferenceFor(a, g) ==
  LET hits == {n \in DOMAIN room_preferences :
                 /\ room_preferences[n].subjectCode = a.subjectCode
                 /\ room_preferences[n].componentType = a.componentType
                 /\ room_preferences[n].studentGroupId = g}
  IN  IF hits = {} THEN 0 ELSE CHOOSE n \in hits : \A m \in hits : n <= m

AllocationKeys(a, g) ==
  IF PreferenceFor(a, g) # 0 /\ room_preferences[PreferenceFor(a, g)].hasRoomAllocations
  THEN DOMAIN room_preferences[PreferenceFor(a, g)].roomAllocations
  ELSE {}

SectionKeyOf(a) ==
  IF a.sections = <<>> THEN <<>> ELSE Tokens(a.componentId) \o <<a.sections[1]>>

HasSectionAllocation(a, g) ==
  a.sections # <<>> /\ SectionKeyOf(a) \in AllocationKeys(a, g)

HasComponentAllocation(a, g) == Tokens(a.componentId) \in AllocationKeys(a, g)

AllocationOf(a, g, key) == room_preferences[PreferenceFor(a, g)].roomAllocations[key]

\* C15 as stated: a section-keyed allocation of any group wins over every
\* component-keyed one, and mustBeInRoom is null when no group has an allocation
C15_SectionKeyedFirst ==
  Built =>
    \A i \in DOMAIN assignments :
       LET a == assignments[i]
           groups == Range(a.studentGroupIds)
       IN  /\ (\E g \in groups : HasSectionAllocation(a, g))
                => \E g \in groups :
                      /\ HasSectionAllocation(a, g)
                      /\ a.constraints.mustBeInRoom = AllocationOf(a, g, SectionKeyOf(a))
           /\ (\A g \in groups :
                 ~HasSectionAllocation(a, g) /\ ~HasComponentAllocation(a, g))
                => a.constraints.mustBeInRoom = None

\* C15 (amended): the groups are consulted in the order of studentGroupIds;
\* the first group that has an allocation under "<componentId>_<first section>"
\* or under the component id decides, its section-keyed allocation being
\* preferred to its component-keyed one; mustBeInRoom is null when no group has
\* either
C15_MustBeInRoom ==
  Built =>
    \A i \in DOMAIN assignments :
       LET a == assignments[i]
           ids == a.studentGroupIds
           Hit(n) == HasSectionAllocation(a, ids[n]) \/ HasComponentAllocation(a, ids[n])
       IN  IF \E n \in DOMAIN ids : Hit(n)
           THEN \E n \in DOMAIN ids :
                  /\ Hit(n)
                  /\ \A m \in 1..(n - 1) : ~Hit(m)
                  /\ a.constraints.mustBeInRoom
                       = IF HasSectionAllocation(a, ids[n])
                         THEN AllocationOf(a, ids[n], SectionKeyOf(a))
                         ELSE AllocationOf(a, ids[n], Tokens(a.componentId))
           ELSE a.constraints.mustBeInRoom = None

C15_Witness ==
  /\ Built
  /\ \E i \in DOMAIN assignments :
       LET a == assignments[i]
       IN  /\ a.studentGroupIds = <<"MCA_SEM3_A", "MCA_SEM3_B">>
           /\ ~HasSectionAllocation(a, "MCA_SEM3_A")
           /\ HasComponentAllocation(a, "MCA_SEM3_A")
           /\ HasSectionAllocation(a, "MCA_SEM3_B")
           /\ a.constraints.mustBeInRoom = "R1"

\* the subject record of an assignment declares a fixed timing
DeclaresFixedTiming(a) ==
  LET hits == {n \in DOMAIN subjects_data :
                 subjects_data[n].subjectCode = a.subjectCode}
  IN  /\ hits # {}
      /\ subjects_data[CHOOSE n \in hits : \A m \in hits : n <= m].hasFixedTiming

DeclaredTiming(a) ==
  LET hits == {n \in DOMAIN subjects_data :
                 subjects_data[n].subjectCode = a.subjectCode}
  IN  subjects_data[CHOOSE n \in hits : \A m \in hits : n <= m].fixedTiming

\* C16: fixedDay and fixedSlot are populated only for an assignment whose
\* subject record declares a fixed timing, and then hold the day and the slots
\* of that declaration; in every other case (the subject code is unknown, or
\* the subject has no fixed timing) both are null
C16_FixedTiming ==
  Built =>
    \A i \in DOMAIN assignments :
       LET a == assignments[i]
           populated == \/ a.constraints.fixedDay # None
                        \/ a.constraints.fixedSlot # None
       IN  /\ populated =>
                /\ DeclaresFixedTiming(a)
                /\ a.constraints.fixedDay = DeclaredTiming(a).day
                /\ a.constraints.fixedSlot = DeclaredTiming(a).slots
           /\ ~DeclaresFixedTiming(a) =>
                /\ a.constraints.fixedDay = None
                /\ a.constraints.fixedSlot = None

C16_Witness ==
  /\ Built
  /\ \E i \in DOMAIN assignments :
       /\ assignments[i].subjectCode = "24MCA32"
       /\ assignments[i].constraints.fixedDay = "Tue"
       /\ assignments[i].constraints.fixedSlot = "S6"
  /\ \E i \in DOMAIN assignments :
       /\ assignments[i].subjectCode = "24MCA99"
       /\ assignments[i].isDiffSubject
       /\ assignments[i].constraints.fixedDay = None

\* C20 as stated: building the constraints of an assignment that names a group
\* which is not a key of the matrix ends in a DataError
C20_UnknownGroupRaises ==
  (/\ Built
   /\ \E i \in DOMAIN assignments :
        \E g \in Range(assignments[i].studentGroupIds) :
           g \notin DOMAIN matrix.cannotOverlapWith)
    => raised = "DataError"

(***************************************************************************)
(* Properties of the whole report (SpecVerify)                             *)
(***************************************************************************)
Reported == pc = "stage6_done"

\* the slot numbers a slotId occupies: both halves of a double slot
SlotsOccupied(slot) ==
  LET text == SlotText(slot)
      Digits(c) == c # "S" /\ c # "+"
      digits == SelectSeq(text, Digits)
  IN  {DigitVal(digits[k]) : k \in DOMAIN digits}

\* the slots of a day on which a faculty member teaches
TeachingSlots(f, d) ==
  UNION {SlotsOccupied(sessions[i].slotId) :
           i \in {j \in PlacedIdx : sessions[j].facultyId = f /\ sessions[j].day = d}}

\* more than max_consecutive adjacent slots of one day are taught by f
LongRun(f, d) ==
  \E first \in TeachingSlots(f, d) :
     \A k \in first..(first + max_consecutive) : k \in TeachingSlots(f, d)

\* no shared faculty or room triple, every headcount within capacity, no run
\* beyond the maximum
CleanFixture ==
  /\ \A i \in PlacedIdx, j \in PlacedIdx :
       (i # j /\ SameDaySlot(i, j)) =>
          /\ sessions[i].facultyId # sessions[j].facultyId
          /\ sessions[i].roomId # sessions[j].roomId
  /\ \A i \in DOMAIN sessions :
       Headcount(i, Len(sessions[i].studentGroupIds))
          <= rooms_map[sessions[i].roomId].capacity
  /\ \A i \in PlacedIdx : ~LongRun(sessions[i].facultyId, sessions[i].day)

AllListsEmpty ==
  /\ report.faculty_conflicts = <<>>
  /\ report.room_conflicts = <<>>
  /\ report.student_conflicts = {}
  /\ report.capacity_violations = <<>>
  /\ report.workload_violations = {}

\* C12 as stated: a session list without shared faculty or room triples, with
\* every headcount within capacity and without a run beyond the maximum has
\* five empty finding lists
C12_CleanFixtureAsStated == (Reported /\ CleanFixture) => AllListsEmpty

\* no two distinct groups present at one day/slot (in one session or in two)
\* are in each other's cannotOverlapWith list
NoConflictingGroupsTogether ==
  \A i \in PlacedIdx, j \in PlacedIdx :
     SameDaySlot(i, j) =>
       \A g1 \in GroupsOf(i), g2 \in GroupsOf(j) :
          g1 # g2 => g2 \notin Range(overlap_constraints.cannotOverlapWith[g1])

\* C12 (amended): a session list in which no two placed sessions share a
\* (faculty, day, slot) or (room, day, slot) triple, every session's summed
\* headcount is within its room's capacity, no faculty teaches more than the
\* maximum of adjacent slots on a day, and no two distinct groups present at
\* the same day/slot are in cannotOverlapWith, has five empty finding lists
C12_CleanFixture ==
  (Reported /\ CleanFixture /\ NoConflictingGroupsTogether) => AllListsEmpty

C12_Witness ==
  /\ Reported
  /\ CleanFixture
  /\ NoConflictingGroupsTogether
  /\ \E i \in PlacedIdx, j \in PlacedIdx :
       i # j /\ SameDaySlot(i, j) /\ GroupsOf(i) # GroupsOf(j)
  /\ overlap_constraints.cannotOverlapWith["MCA_SEM3_A"] # <<"MCA_SEM3_A">>
  /\ AllListsEmpty

\* C13 as stated: two distinct groups at one day/slot that are in neither
\* list of the matrix give a student-group-overlap finding
C13_UnknownMeansConflicting ==
  Reported =>
    \A i \in PlacedIdx, j \in PlacedIdx :
       SameDaySlot(i, j) =>
         \A g1 \in GroupsOf(i), g2 \in GroupsOf(j) :
            (/\ g1 # g2
             /\ g2 \notin Range(overlap_constraints.cannotOverlapWith[g1])
             /\ g2 \notin Range(overlap_constraints.canRunParallelWith[g1]))
              => PairFindings(g1, g2, sessions[i].day, sessions[i].slotId) # {}

(***************************************************************************)
(* Properties of the workload scan and of bad references (SpecRefs)        *)
(***************************************************************************)
WorkloadFindings(f, d) ==
  {w \in report.workload_violations : w.facultyId = f /\ w.day = d}

\* C11 as stated: the report has exactly one faculty-workload finding for a
\* faculty member and a day when the member teaches a run of adjacent single
\* slots longer than the maximum on that day, and none otherwise
C11_OncePerFacultyDay ==
  Reported =>
    \A f \in FacultyIds, d \in RefDays :
       Cardinality(WorkloadFindings(f, d)) = IF LongRun(f, d) THEN 1 ELSE 0

\* the session names a room and groups that the records know
Resolvable(s) ==
  /\ s.roomId \in DOMAIN rooms_map
  /\ Range(s.studentGroupIds) \subseteq DOMAIN student_groups_map

KindsReported ==
  {report.faculty_conflicts[k].kind : k \in DOMAIN report.faculty_conflicts}
    \cup {report.room_conflicts[k].kind : k \in DOMAIN report.room_conflicts}
    \cup {f.kind : f \in report.student_conflicts}
    \cup {report.capacity_violations[k].kind : k \in DOMAIN report.capacity_violations}
    \cup {w.kind : w \in report.workload_violations}

\* C17 as stated: a session that names an unknown room or an unknown group
\* gives an unresolvable-reference finding
C17_UnresolvableReported ==
  Reported =>
    ((\E i \in DOMAIN sessions : ~Resolvable(sessions[i]))
       => "unresolvable-reference" \in KindsReported)

\* the sessions that are placed and name known rooms and groups only
WellFormedOnly ==
  LET Good(s) == Placed(s) /\ Resolvable(s)
  IN  SelectSeq(sessions, Good)

Covers(findings, wanted) ==
  \A k \in DOMAIN wanted :
     \E n \in DOMAIN findings :
        /\ findings[n].id = wanted[k].id
        /\ findings[n].time_key = wanted[k].time_key
        /\ Range(wanted[k].sessions) \subseteq Range(findings[n].sessions)

\* C18 as stated: analyze() ends without raising and its report holds every
\* finding that the well-formed sessions give on their own
C18_OtherFindingsKept ==
  Reported =>
    /\ raised = None
    /\ Covers(report.faculty_conflicts,
              _analyze_faculty_conflicts(EntityGrid(WellFormedOnly, "facultyId")))
    /\ Covers(report.room_conflicts,
              _analyze_room_conflicts(EntityGrid(WellFormedOnly, "roomId")))
    /\ \A order \in Orderings(GroupsPlaced(WellFormedOnly)) :
         Unoriented(_analyze_student_group_conflicts(WellFormedOnly,
                                                     overlap_constraints, order))
           \subseteq Unoriented(report.student_conflicts)
    /\ Range(_analyze_room_capacity(WellFormedOnly, rooms_map, student_groups_map))
         \subseteq Range(report.capacity_violations)
    /\ _analyze_faculty_workload(WellFormedOnly, max_consecutive)
         \subseteq report.workload_violations

(***************************************************************************)
(* Validation of the hierarchy (SpecMatrix)                                *)
(***************************************************************************)
\* the group ids the hierarchy names as key, parent, one of parents or child
HierarchyIds ==
  (DOMAIN hierarchy)
    \cup {hierarchy[g].parent : g \in {x \in DOMAIN hierarchy : hierarchy[x].hasParent}}
    \cup UNION {Range(hierarchy[g].parents) : g \in DOMAIN hierarchy}
    \cup UNION {hierarchy[g].children : g \in DOMAIN hierarchy}

\* C19 as stated: when the hierarchy names a group id that is not a declared
\* student group, the generator ends in a DataError and produces no matrix
C19_HierarchyValidated ==
  (pc = "stage3_done" /\ ~(HierarchyIds \subseteq Declared))
    => (raised = "DataError" /\ matrix = NoMatrix)

(***************************************************************************)
(* Shape of the two relations (SpecMatrix)                                 *)
(***************************************************************************)
Generated == pc = "stage3_done"

\* the section pairs the generator knows to be parallel
KnownParallelPairs ==
  {{"MCA_SEM3_A", "MCA_SEM3_B"}, {"ELEC_AD_A1", "ELEC_AD_B1"},
   {"MCA_SEM1_A", "MCA_SEM1_B"}}

C22_BuiltOverDeclared ==
  Generated =>
    /\ DOMAIN matrix.cannotOverlapWith = Declared
    /\ DOMAIN matrix.canRunParallelWith = Declared
    /\ \A g \in Declared : Conflicts(g) \subseteq Declared
    /\ \A g \in Declared : Parallel(g) \subseteq Declared

C22_Witness ==
  /\ Generated
  /\ "ELEC_AD_B1" \notin Declared
  /\ "ELEC_AD_B1" \in HierarchyIds
  /\ \E g \in Declared : matrix.canRunParallelWith[g] = <<>>

Unbuilt(a) == [a EXCEPT !.constraints = NoConstraints]

\* C24: the constraints attached to each assignment of a list are those of
\* building that assignment alone, in whatever order the list is given, and
\* building leaves the matrix, the loader's records and every other field of
\* the assignments as they were
C24_OrderIndependent ==
  /\ [](Built =>
          /\ \A i \in DOMAIN assignments :
               assignments[i].constraints
                 = build_constraints(Unbuilt(assignments[i]), matrix,
                                     subjects_data, room_preferences)
          /\ \A p \in Orderings(DOMAIN assignments) :
               LET reordered ==
                     build_constraints_for_assignments(
                         [n \in DOMAIN p |-> Unbuilt(assignments[p[n]])],
                         matrix, subjects_data, room_preferences)
               IN \A k \in DOMAIN p :
                    reordered[k].constraints = assignments[p[k]].constraints)
  /\ [][(pc = "stage3_build" /\ pc' = "stage3_built") =>
          /\ matrix' = matrix
          /\ subjects_data' = subjects_data
          /\ room_preferences' = room_preferences
          /\ DOMAIN assignments' = DOMAIN assignments
          /\ \A i \in DOMAIN assignments : Unbuilt(assignments'[i]) = assignments[i]]_vars

\* two assignments whose constraints differ in every field that is computed
C24_Witness ==
  /\ Built
  /\ Len(assignments) = 2
  /\ assignments[1].studentGroupIds = <<"ELEC_SS_G1">>
  /\ assignments[2].studentGroupIds = <<"MCA_SEM3_A", "MCA_SEM3_B">>
  /\ Len(assignments[1].constraints.studentGroupConflicts) = 3
  /\ Len(assignments[2].constraints.studentGroupConflicts) = 5
  /\ assignments[1].constraints.fixedDay # assignments[2].constraints.fixedDay
  /\ assignments[1].constraints.mustBeInRoom # assignments[2].constraints.mustBeInRoom

(***************************************************************************)
(* The rules of student sharing (SpecMatrix)                               *)
(***************************************************************************)
\* the parents of a group: its "parent", else the members of its "parents"
ParentSet(g) == Range(_get_parents(hierarchy, g)) \ {None}

\* m has several parents and o is one of them, or a child of one of them
\* that has no category or the category of m
MixedOverlap(m, o) ==
  /\ Cardinality(ParentSet(m)) > 1
  /\ \/ o \in ParentSet(m)
     \/ /\ \E p \in ParentSet(m) : o \in _get_children(hierarchy, p)
        /\ \/ _get_elective_category(o) = None
           \/ _get_elective_category(o) = _get_elective_category(m)

\* the ordered rule list (1)..(6)
SharesByRules(g1, g2) ==
  IF g1 = g2 THEN TRUE
  ELSE IF DifferentCategories(g1, g2) THEN FALSE
  ELSE IF \/ g2 \in _get_children(hierarchy, g1)
          \/ g1 \in _get_children(hierarchy, g2) THEN TRUE
  ELSE IF /\ Cardinality(ParentSet(g1)) = 1
          /\ Cardinality(ParentSet(g2)) = 1
          /\ ParentSet(g1) = ParentSet(g2) THEN TRUE
  ELSE MixedOverlap(g1, g2) \/ MixedOverlap(g2, g1)

\* C25 as stated: for declared g1, g2 the generator's answer (g2 is in
\* cannotOverlapWith[g1]) is the result of the ordered rule list
C25_OrderedRules ==
  Generated =>
    \A g1 \in Declared, g2 \in Declared :
       (g2 \in Conflicts(g1)) <=> SharesByRules(g1, g2)

\* C26 as stated: the list of a multi-parent group of category SS holds each
\* of its parents and every child of each of its parents
C26_MixedConflictsWithAll ==
  Generated =>
    \A g \in Declared :
       (_get_elective_category(g) = "SS" /\ Cardinality(ParentSet(g)) > 1) =>
          \A o \in Declared :
             (\/ o \in ParentSet(g)
              \/ \E p \in ParentSet(g) : o \in _get_children(hierarchy, p))
               => o \in Conflicts(g)

\* one declared link from a parent p to a child c
LinkedTo(p, c) ==
  c \in _get_children(hierarchy, p) \/ p \in ParentSet(c)

\* the groups reached from g over n or fewer links
RECURSIVE Below(_, _)
Below(g, n) ==
  IF n = 0 THEN {g}
  ELSE Below(g, n - 1)
         \cup {c \in GroupIds : \E m \in Below(g, n - 1) : LinkedTo(m, c)}

\* C27 as stated: a group reached from g1 over a chain of two or more links
\* is in cannotOverlapWith[g1] unless the two are category-disjoint
C27_DepthIndependent ==
  Generated =>
    \A g1 \in Declared, g2 \in Declared :
       (/\ \E m \in GroupIds :
             /\ LinkedTo(g1, m)
             /\ g2 \in Below(m, Cardinality(GroupIds)) \ {m}
          /\ ~ DifferentCategories(g1, g2))
         => g2 \in Conflicts(g1)

(***************************************************************************)
(* Student findings and double slots (SpecVerify)                          *)
(***************************************************************************)
\* C28 as stated: the two groups of a student-group finding belong to two
\* distinct sessions placed at the day/slot of the finding
C28_TwoSessionsInvolved ==
  Reported =>
    \A f \in report.student_conflicts :
       \E i \in PlacedIdx, j \in PlacedIdx :
          /\ i # j
          /\ f.time_key = <<sessions[i].day, sessions[i].slotId>>
          /\ f.time_key = <<sessions[j].day, sessions[j].slotId>>
          /\ f.g1 \in GroupsOf(i)
          /\ f.g2 \in GroupsOf(j)

\* C29 as stated: a faculty member who occupies more than the maximum of
\* adjacent slots on a day, a double slot occupying both its slots, gets a
\* faculty-workload finding
C29_DoubleSlotsCounted ==
  Reported =>
    \A i \in PlacedIdx :
       LongRun(sessions[i].facultyId, sessions[i].day)
         => WorkloadFindings(sessions[i].facultyId, sessions[i].day) # {}

(***************************************************************************)
(* A validator used for several files (SpecValidate)                       *)
(***************************************************************************)
\* what validating the file alone, on a new validator, finds wrong with it
OwnErrors(filename) ==
  validate_file([errors |-> <<>>, warnings |-> <<>>],
                files[filename], filename).errors

\* C30: every validate_file call returns True exactly when the file it was
\* given exists, parses and has no structural or assignment error of its
\* own, whatever was recorded for the files validated before it
C30_ReportsOnGivenFile ==
  \A i \in DOMAIN results :
    results[i].ok <=> OwnErrors(results[i].file) = <<>>

====
